---- MODULE Spec2Model ----
(***************************************************************************)
(* Model of the upload worker in src/src/index.ts: the fetch handler, the  *)
(* authorization gate verifyRequest with its remote verification call,     *)
(* and the multipart-upload routes against the R2 bucket.                  *)
(*                                                                         *)
(* One request is in flight at a time.  An async function is cut at its    *)
(* awaits: one action runs the code from one suspension point to the next. *)
(***************************************************************************)
EXTENDS Integers, Sequences, FiniteSets, TLC

\* ------------------------------------------------------------------ bounds
\* longest partNumber query string that is enumerated
MaxLen == 2

\* ------------------------------------------------------------- input sets
Methods == {"POST", "PUT", "GET", "DELETE", "PATCH"}
Actions == {"mpu-create", "mpu-complete", "mpu-uploadpart", "get",
            "mpu-abort", "delete", "frobnicate"}
UploadIds == {"upload-1", "upload-2"}
Chars == {"1", "2", "x"}
Digits == {"1", "2"}
Keys == {"song.wav"}
\* what the request carries as its body
\*   missing: no body at all (request.body === null); empty: zero bytes;
\*   null: the JSON text null; malformed: bytes that are not JSON;
\*   parts: a JSON object with a parts list
BodyKinds == {"missing", "empty", "null", "malformed", "parts"}

PrivateKeys == {"priv-1", "priv-2"}
PublicKeys == {"pub-1", "pub-2"}
Subjects == {"subject-A", "subject-X"}
Realms == {"realm-A", "realm-X"}
Audiences == {"aud-A", "aud-X"}
ClientIds == {"client-A", "client-X"}
\* OrderMetadata values (src/src/index.ts:41-46), carried opaquely
OrderMetadatas == {[orderId |-> "order-1", orderStatus |-> "accepted"],
                   [orderId |-> "order-2", orderStatus |-> "declined"]}
Times == {1000, 2000}
RemoteStatuses == {200, 403, 500}

\* ------------------------------------------------------------ JS values
Undefined == [undefined |-> TRUE]
EmptyString == [empty |-> TRUE]
Malformed == [malformed |-> TRUE]
JsonNull == [jsonNull |-> TRUE]
NoHeaders == [n \in {} |-> n]

\* JavaScript's !v on the values a cookie lookup can give
JsFalse == [boolean |-> FALSE]
JsTrue == [boolean |-> TRUE]

\* JavaScript's !v: undefined, "" and false are falsy, every object is truthy
Falsy(v) == v \in {Undefined, EmptyString, JsFalse}

\* the Promise object an async function returns, whatever it settles to
Promise(state) == [promise |-> state]

\* the claim set of a token (type Claims, plus the aud that verifyRequest reads)
Payloads == [aud : Audiences, realm : Realms, sub : Subjects,
             may_act : [client_id : ClientIds], addl : OrderMetadatas]

\* a compact signed token: who signed it and what it says; or not a token
Tokens == {Malformed} \cup [key : PrivateKeys, payload : Payloads]

\* ------------------------------------------------------------- ./jwt
PublicOf(priv) == IF priv = "priv-1" THEN "pub-1" ELSE "pub-2"

\* sign(payload, secret, options): the token over the payload under the key
sign(payload, privateKey) == [key |-> privateKey, payload |-> payload]

\* verify(token, secret, options): the decoded token when the signature is
\* valid under the public key, undefined otherwise (no exception)
verify(token, publicKey) ==
  IF "key" \notin DOMAIN token THEN Undefined
  ELSE IF PublicOf(token.key) = publicKey THEN [payload |-> token.payload]
  ELSE Undefined

\* ------------------------------------------------------------- cookie
\* a cookie header is a list of name=value pairs
Cookie(n, v) == [name |-> n, value |-> v]

\* parse(str): the first pair of each name wins
parse(str) ==
  [n \in {str[i].name : i \in DOMAIN str} |->
     str[CHOOSE i \in DOMAIN str :
           /\ str[i].name = n
           /\ \A j \in DOMAIN str : j < i => str[j].name # n].value]

\* stringifyCookie({ jwt: jwt })
stringifyCookie(jwt) == <<Cookie("jwt", jwt)>>

\* headers.get(name): the value, or null
HeaderGet(headers, name) ==
  IF name \in DOMAIN headers THEN headers[name] ELSE <<>>

\* the lookup without the name: the first cookie of the header is taken
extractJwtCookie_anyName(cookieName, headers) ==
  IF "cookie" \notin DOMAIN headers \/ headers["cookie"] = <<>>
  THEN Undefined
  ELSE headers["cookie"][1].value

extractJwtCookie(cookieName, headers) ==
  LET cookies == parse(HeaderGet(headers, "cookie"))
  IN IF "cookie" \notin DOMAIN headers \/ headers["cookie"] = <<>>
     THEN Undefined
     ELSE IF cookieName \in DOMAIN cookies THEN cookies[cookieName]
          ELSE Undefined

\* ------------------------------------------------------------ parseInt
NaN == [nan |-> TRUE, value |-> 0]
Number(n) == [nan |-> FALSE, value |-> n]

DigitValue(c) == IF c = "1" THEN 1 ELSE 2

\* the longest prefix of digits
RECURSIVE DigitPrefix(_)
DigitPrefix(s) ==
  IF s = <<>> \/ Head(s) \notin Digits THEN <<>>
  ELSE <<Head(s)>> \o DigitPrefix(Tail(s))

RECURSIVE Decimal(_)
Decimal(s) ==
  IF s = <<>> THEN 0
  ELSE 10 * Decimal(SubSeq(s, 1, Len(s) - 1)) + DigitValue(s[Len(s)])

\* parseInt(string): the number its leading digits spell, NaN without any
parseInt(s) ==
  IF DigitPrefix(s) = <<>> THEN NaN ELSE Number(Decimal(DigitPrefix(s)))

\* the strings that spell an integer
IsIntegerString(s) == s # <<>> /\ \A i \in DOMAIN s : s[i] \in Digits

RECURSIVE StringsUpTo(_)
StringsUpTo(n) ==
  IF n = 0 THEN {<<>>}
  ELSE LET shorter == StringsUpTo(n - 1)
       IN shorter \cup {Append(s, c) : s \in shorter, c \in Chars}

PartNumberStrings == StringsUpTo(MaxLen)

\* ------------------------------------------------------------- requests
\* a cookie header carrying token t under the configured name, alone or
\* after another cookie; and the headers with no usable credential
SampleTokens ==
  {Malformed} \cup
  {[key |-> k,
    payload |-> [aud |-> "aud-A", realm |-> "realm-A", sub |-> "subject-A",
                 may_act |-> [client_id |-> "client-A"],
                 addl |-> [orderId |-> "order-1", orderStatus |-> "accepted"]]] :
     k \in PrivateKeys}

CookieStrings ==
  {<<>>, <<Cookie("session", EmptyString)>>,
   <<Cookie("session", EmptyString), Cookie("session", Malformed)>>}
  \cup {<<Cookie("session", t)>> : t \in Tokens}
  \cup {<<Cookie("other", t)>> : t \in SampleTokens}
  \cup {<<Cookie("other", Malformed), Cookie("session", t)>> : t \in SampleTokens}

HeaderSets == {NoHeaders} \cup {[cookie |-> c] : c \in CookieStrings}

\* no credential, no token, the authorized token, and it under a foreign key
SampleHeaderSets ==
  {NoHeaders} \cup {[cookie |-> <<Cookie("session", t)>>] : t \in SampleTokens}

\* url.searchParams of the requests that reach a multipart route
UploadPartQueries ==
  {[action |-> "mpu-uploadpart"]}
  \cup {[action |-> "mpu-uploadpart", uploadId |-> u] : u \in UploadIds}
  \cup {[action |-> "mpu-uploadpart", partNumber |-> p] : p \in PartNumberStrings}
  \cup {[action |-> "mpu-uploadpart", uploadId |-> u, partNumber |-> p] :
          u \in UploadIds, p \in PartNumberStrings}

UploadIdQueries(a) ==
  {[action |-> a]} \cup {[action |-> a, uploadId |-> u] : u \in UploadIds}

Request(m, q, b, h) ==
  [method |-> m, key |-> "song.wav", query |-> q, body |-> b, headers |-> h]

\* every method with every action and with none, under every credential; the
\* parameters and the body vary on the routes that read them, and the
\* partNumber strings come with the sample credentials
Requests ==
  {Request(m, q, "missing", h) :
     m \in Methods, q \in {NoHeaders} \cup {[action |-> a] : a \in Actions},
     h \in HeaderSets}
  \cup {Request("PUT", q, b, h) :
          q \in UploadPartQueries, b \in {"missing", "malformed"},
          h \in SampleHeaderSets}
  \cup {Request("POST", q, b, h) :
          q \in UploadIdQueries("mpu-complete"), b \in BodyKinds, h \in HeaderSets}
  \cup {Request("DELETE", q, "missing", h) :
          q \in UploadIdQueries("mpu-abort"), h \in HeaderSets}

\* url.searchParams.get(name): the value, or null
HasParam(q, name) == name \in DOMAIN q

\* ------------------------------------------------------------- responses
Text(s) == [text |-> s]
\* the message without the action
UnknownAction_noAction(a, m) == [text |-> "Unknown action", method |-> m]

UnknownAction(a, m) == [text |-> "Unknown action", action |-> a, method |-> m]
Json(v) == [json |-> v]
NoBody == [nobody |-> TRUE]
StoreMessage == Text("store error message")

Response(status, body, headers) ==
  [kind |-> "response", status |-> status, body |-> body, headers |-> headers]
Thrown(msg) == [kind |-> "thrown", error |-> msg]
NoResponse == [kind |-> "none"]

\* ------------------------------------------------------------- Env
Envs ==
  [COOKIE_NAME : {"session"},
   AUTHORIZED_SUBJECT : {"subject-A"},
   AUTHORIZED_REALM : {"realm-A"},
   AUTHORIZED_CLIENT_ID : {"client-A"},
   aUTHORIZED_AUDIENCE : {"aud-A"},
   CLOUDFLARE_WORKER_PUBLIC_KEY : {"pub-1"},
   CLOUDFLARE_WORKER_PRIVATE_KEY : PrivateKeys,
   CLOUDFLARE_WORKER_AUD : {"aud-W"},
   CLOUDFLARE_WORKER_REALM : {"realm-W"},
   CLOUDFLARE_WORKER_SUB : {"subject-W"},
   CLOUDFLARE_WORKER_CLIENT_ID : {"client-W"}]

\* ------------------------------------------------------------- state
VARIABLES
  env,         \* the worker's configuration
  req,         \* the request being handled
  fetchPc,     \* where the fetch handler is: idle, awaitJson, awaitStore, done
  response,    \* what fetch gave back: a Response, a thrown error, or nothing yet
  storeOps,    \* the bucket operations started for the request, in order
  resumed,     \* resumeMultipartUpload was called for the request
  abortState,  \* the promise of multipartUpload.abort(): none, pending, fulfilled, rejected
  gatePc,      \* where verifyRequest is: idle, awaitVerify, awaitSign, awaitFetch, Allow, Deny
  outbound,    \* the headers of the outbound verification request, once sent
  remote,      \* what the outbound verification request came to, once settled
  apiResult,   \* what executeConveyorVerificationRequest returned, once it has
  remoteCalls, \* the outbound verification requests sent for the request
  gateTrace,   \* the steps verifyRequest has taken for the request, in order
  storeOutcome,  \* how the awaited bucket operation settled: none, ok, null, reject
  uploads,     \* the bucket's multipart uploads: the state of each uploadId
  uploadsBefore  \* uploads as the request found them

vars == <<env, req, fetchPc, response, storeOps, resumed, abortState,
          gatePc, outbound, remote, apiResult, remoteCalls, gateTrace,
          storeOutcome, uploads, uploadsBefore>>

\* the states of an upload in the bucket; untracked: nothing is known of it
\* and the bucket may answer an operation on it either way
UploadStates == {"none", "created", "uploading", "completed", "aborted"}
Terminal == {"completed", "aborted"}
Untracked == [u \in UploadIds |-> "untracked"]
NoUploads == [u \in UploadIds |-> "none"]

NoOutcome == [kind |-> "none"]
NoRequest == Request("GET", NoHeaders, "missing", NoHeaders)

Init ==
  /\ env \in Envs
  /\ req = NoRequest
  /\ fetchPc = "idle"
  /\ response = NoResponse
  /\ storeOps = <<>>
  /\ resumed = FALSE
  /\ abortState = "none"
  /\ gatePc = "idle"
  /\ outbound = NoHeaders
  /\ remote = NoOutcome
  /\ apiResult = Undefined
  /\ remoteCalls = 0
  /\ gateTrace = <<>>
  /\ storeOutcome = "none"
  /\ uploads = Untracked
  /\ uploadsBefore = Untracked

\* ------------------------------------------------------------- fetch
\* the handler's position after its synchronous run
Done(resp) ==
  [pc |-> "done", response |-> resp, op |-> "none", resumed |-> FALSE,
   abort |-> "none"]
Await(op, res) ==
  [pc |-> "awaitStore", response |-> NoResponse, op |-> op, resumed |-> res,
   abort |-> "none"]

\* the answer without the Allow header
MethodNotAllowed_noAllow ==
  Response(405, Text("Method Not Allowed"), NoHeaders)

\* the answer to a method other than the four of the switch
MethodNotAllowed ==
  Response(405, Text("Method Not Allowed"), [Allow |-> "PUT, POST, GET, DELETE"])

\* the test with "and" for "or"
MissingPartParams_both(q) ==
  ~HasParam(q, "partNumber") /\ ~HasParam(q, "uploadId")

\* partNumberString === null || uploadId === null
MissingPartParams(q) ==
  ~HasParam(q, "partNumber") \/ ~HasParam(q, "uploadId")

\* the switch on request.method and action, up to the first await or return;
\* abortThrows: multipartUpload.abort() throws instead of returning a promise
route(r, abortThrows) ==
  LET q == r.query
      BadRequest(text) == Done(Response(400, Text(text), NoHeaders))
  IN
  IF ~HasParam(q, "action") THEN BadRequest("Missing action type")
  ELSE IF r.method = "POST" THEN
    IF q.action = "mpu-create" THEN Await("createMultipartUpload", FALSE)
    ELSE IF q.action = "mpu-complete" THEN
      IF ~HasParam(q, "uploadId") THEN BadRequest("Missing uploadId")
      ELSE [pc |-> "awaitJson", response |-> NoResponse, op |-> "none",
            resumed |-> TRUE, abort |-> "none"]
    ELSE Done(Response(400, UnknownAction(q.action, "POST"), NoHeaders))
  ELSE IF r.method = "PUT" THEN
    IF q.action = "mpu-uploadpart" THEN
      IF MissingPartParams(q)
      THEN BadRequest("Missing partNumber or uploadId")
      ELSE IF r.body = "missing" THEN BadRequest("Missing request body")
      ELSE Await("uploadPart", TRUE)
    ELSE Done(Response(400, UnknownAction(q.action, "PUT"), NoHeaders))
  ELSE IF r.method = "GET" THEN
    IF q.action # "get"
    THEN Done(Response(400, UnknownAction(q.action, "GET"), NoHeaders))
    ELSE Await("get", FALSE)
  ELSE IF r.method = "DELETE" THEN
    IF q.action = "mpu-abort" THEN
      IF ~HasParam(q, "uploadId") THEN BadRequest("Missing uploadId")
      ELSE IF abortThrows
      THEN [pc |-> "done", response |-> Response(400, StoreMessage, NoHeaders),
            op |-> "abort", resumed |-> TRUE, abort |-> "none"]
      ELSE [pc |-> "done", response |-> Response(204, NoBody, NoHeaders),
            op |-> "abort", resumed |-> TRUE, abort |-> "pending"]
    ELSE IF q.action = "delete" THEN Await("delete", FALSE)
    ELSE Done(Response(400, UnknownAction(q.action, "DELETE"), NoHeaders))
  ELSE Done(MethodNotAllowed)

\* verifyRequest up to its first await: the cookie lookup
verifyRequestStart(headers) ==
  IF Falsy(extractJwtCookie(env.COOKIE_NAME, headers)) THEN "Deny"
  ELSE "awaitVerify"

\* a bucket operation started while the gate was in the given state
StoreOp(op, gate) == [op |-> op, gate |-> gate]

\* fetch(request, env, ctx): a request arrives; verifyRequest is called and
\* its promise is tested, then the request is routed
fetch(r) ==
  /\ fetchPc = "idle"
  /\ req' = r
  /\ gatePc' = verifyRequestStart(r.headers)
  /\ remoteCalls' = 0
  /\ outbound' = NoHeaders
  /\ remote' = NoOutcome
  /\ apiResult' = Undefined
  /\ IF Falsy(Promise(gatePc'))
     THEN /\ fetchPc' = "done"
          /\ response' = Response(401, Text("Unauthorized"), NoHeaders)
          /\ storeOps' = <<>>
          /\ resumed' = FALSE
          /\ abortState' = "none"
     ELSE \E abortThrows \in BOOLEAN :
            LET out == route(r, abortThrows) IN
            /\ fetchPc' = out.pc
            /\ response' = out.response
            /\ storeOps' = IF out.op = "none" THEN <<>>
                           ELSE <<StoreOp(out.op, gatePc')>>
            /\ resumed' = out.resumed
            /\ abortState' = out.abort
  /\ gateTrace' = <<"extract">>
  /\ storeOutcome' = "none"
  /\ uploadsBefore' = uploads
  /\ UNCHANGED <<env, uploads>>

\* the rest of mpu-complete, once request.json() has settled
fetch_json ==
  /\ fetchPc = "awaitJson"
  /\ IF req.body \in {"missing", "empty", "malformed"}
     THEN /\ fetchPc' = "done"
          /\ response' = Thrown(Text("SyntaxError"))
          /\ UNCHANGED storeOps
     ELSE IF req.body = "null"
     THEN /\ fetchPc' = "done"
          /\ response' = Response(400, Text("Missing or incomplete body"), NoHeaders)
          /\ UNCHANGED storeOps
     ELSE /\ fetchPc' = "awaitStore"
          /\ storeOps' = Append(storeOps, StoreOp("complete", gatePc))
          /\ UNCHANGED response
  /\ UNCHANGED <<env, req, resumed, abortState, gatePc, outbound, remote,
                 apiResult, remoteCalls, gateTrace, storeOutcome, uploads,
                 uploadsBefore>>

\* the upload an operation of the request is on
Target == req.query.uploadId

\* the uploadIds the bucket can give to a new upload
FreeIds == {u \in UploadIds : uploads[u] \in {"none", "untracked"}}

\* what the bucket can answer to an operation: an upload that is not open
\* (never created, completed or aborted) is refused, and so is a part number
\* that is no number
StoreOutcomes(op) ==
  IF op = "get" THEN {"ok", "null", "reject"}
  ELSE IF op = "delete" THEN {"ok", "reject"}
  ELSE IF op = "createMultipartUpload"
  THEN IF FreeIds = {} THEN {"reject"} ELSE {"ok", "reject"}
  ELSE IF uploads[Target] \in {"none"} \cup Terminal THEN {"reject"}
  ELSE IF op = "uploadPart" /\ parseInt(req.query.partNumber).nan THEN {"reject"}
  ELSE {"ok", "reject"}

\* the uploads after an operation settled
storeEffect(op, outcome, newId) ==
  IF outcome # "ok" \/ uploads = Untracked THEN uploads
  ELSE IF op = "createMultipartUpload" THEN [uploads EXCEPT ![newId] = "created"]
  ELSE IF op = "uploadPart" THEN [uploads EXCEPT ![Target] = "uploading"]
  ELSE IF op = "complete" THEN [uploads EXCEPT ![Target] = "completed"]
  ELSE uploads

\* a rejected operation is thrown on, whichever it is
storeFailure_rethrow(op) == Thrown(StoreMessage)

\* the handler's answer to a rejected operation: caught for complete and
\* uploadPart, not caught for the others
storeFailure(op) ==
  IF op \in {"complete", "uploadPart"} THEN Response(400, StoreMessage, NoHeaders)
  ELSE Thrown(StoreMessage)

\* the handler's answer to the outcome of the bucket operation it awaited
storeResponse(op, outcome, newId) ==
  IF op = "createMultipartUpload" THEN
    IF outcome = "ok"
    THEN Response(200, Json([key |-> req.key, uploadId |-> newId]), NoHeaders)
    ELSE storeFailure(op)
  ELSE IF op = "complete" THEN
    IF outcome = "ok" THEN Response(200, NoBody, [etag |-> "object-etag"])
    ELSE storeFailure(op)
  ELSE IF op = "uploadPart" THEN
    IF outcome = "ok"
    THEN Response(200, Json([partNumber |-> parseInt(req.query.partNumber).value,
                             etag |-> "part-etag"]), NoHeaders)
    ELSE storeFailure(op)
  ELSE IF op = "get" THEN
    IF outcome = "null" THEN Response(404, Text("Object Not Found"), NoHeaders)
    ELSE IF outcome = "ok"
    THEN Response(200, [object |-> req.key], [etag |-> "object-etag"])
    ELSE storeFailure(op)
  ELSE \* delete
    IF outcome = "ok" THEN Response(204, NoBody, NoHeaders)
    ELSE storeFailure(op)

\* the awaited bucket operation settles
fetch_store ==
  /\ fetchPc = "awaitStore"
  /\ LET op == storeOps[Len(storeOps)].op IN
     \E outcome \in StoreOutcomes(op),
        newId \in IF FreeIds = {} THEN UploadIds ELSE FreeIds :
       /\ response' = storeResponse(op, outcome, newId)
       /\ storeOutcome' = outcome
       /\ uploads' = storeEffect(op, outcome, newId)
  /\ fetchPc' = "done"
  /\ UNCHANGED <<env, req, storeOps, resumed, abortState, gatePc, outbound,
                 remote, apiResult, remoteCalls, gateTrace, uploadsBefore>>

\* the promise of multipartUpload.abort(), which nothing awaits, settles
abort_settle ==
  /\ abortState = "pending"
  /\ abortState' \in IF uploads[Target] \in {"none"} \cup Terminal
                      THEN {"rejected"}
                      ELSE {"fulfilled", "rejected"}
  /\ uploads' = IF abortState' = "fulfilled" /\ uploads # Untracked
                THEN [uploads EXCEPT ![Target] = "aborted"]
                ELSE uploads
  /\ UNCHANGED <<env, req, fetchPc, response, storeOps, resumed, gatePc,
                 outbound, remote, apiResult, remoteCalls, gateTrace,
                 storeOutcome, uploadsBefore>>

\* ------------------------------------------------------------- the gate
\* the comparison without the audience
claimsMismatch_noAud(payload) ==
  \/ payload.may_act.client_id # env.AUTHORIZED_CLIENT_ID
  \/ payload.realm # env.AUTHORIZED_REALM
  \/ payload.sub # env.AUTHORIZED_SUBJECT

\* the four identity claims against the configured identity
claimsMismatch(payload) ==
  \/ payload.may_act.client_id # env.AUTHORIZED_CLIENT_ID
  \/ payload.realm # env.AUTHORIZED_REALM
  \/ payload.aud # env.aUTHORIZED_AUDIENCE
  \/ payload.sub # env.AUTHORIZED_SUBJECT

\* the claims are not looked at
verifyRequestVerified_noMatch(verified) ==
  IF Falsy(verified) THEN "Deny" ELSE "awaitSign"

\* verifyRequest from the result of verify to its next await or return
verifyRequestVerified(verified) ==
  IF Falsy(verified) THEN "Deny"
  ELSE IF claimsMismatch(verified.payload) THEN "Deny"
  ELSE "awaitSign"

\* the token the request carries and what verify makes of it
jwtOf(r) == extractJwtCookie(env.COOKIE_NAME, r.headers)
\* the token decoded, its signature not checked
verifiedOf_decodeOnly(r) ==
  IF "key" \in DOMAIN jwtOf(r) THEN [payload |-> jwtOf(r).payload]
  ELSE Undefined

verifiedOf(r) == verify(jwtOf(r), env.CLOUDFLARE_WORKER_PUBLIC_KEY)

\* verify(jwt, publicKey) settles: the signature is looked at, and the claims
\* if it is good
verifyRequest_verify ==
  /\ gatePc = "awaitVerify"
  /\ gatePc' = verifyRequestVerified(verifiedOf(req))
  /\ gateTrace' = gateTrace \o (IF Falsy(verifiedOf(req)) THEN <<"verify">>
                                ELSE <<"verify", "match">>)
  /\ UNCHANGED <<env, req, fetchPc, response, storeOps, resumed, abortState,
                 outbound, remote, apiResult, remoteCalls, storeOutcome,
                 uploads, uploadsBefore>>

\* the token with the audience of the authorized identity
signJwt_authorizedAud(meta, now) ==
  sign([aud |-> env.aUTHORIZED_AUDIENCE,
        realm |-> env.CLOUDFLARE_WORKER_REALM,
        sub |-> env.CLOUDFLARE_WORKER_SUB,
        may_act |-> [client_id |-> env.CLOUDFLARE_WORKER_CLIENT_ID],
        nbf |-> now,
        iat |-> now,
        addl |-> meta],
       env.CLOUDFLARE_WORKER_PRIVATE_KEY)

\* signJwt(meta, env) at the time now
signJwt(meta, now) ==
  sign([aud |-> env.CLOUDFLARE_WORKER_AUD,
        realm |-> env.CLOUDFLARE_WORKER_REALM,
        sub |-> env.CLOUDFLARE_WORKER_SUB,
        may_act |-> [client_id |-> env.CLOUDFLARE_WORKER_CLIENT_ID],
        nbf |-> now,
        iat |-> now,
        addl |-> meta],
       env.CLOUDFLARE_WORKER_PRIVATE_KEY)

\* executeConveyorVerificationRequest: the token is signed and the GET to
\* the order/verify endpoint is sent with it as the cookie
executeConveyorVerificationRequest_sign ==
  /\ gatePc = "awaitSign"
  /\ \E now \in Times :
       outbound' = [cookie |->
                      stringifyCookie(signJwt(verifiedOf(req).payload.addl, now))]
  /\ remoteCalls' = remoteCalls + 1
  /\ gatePc' = "awaitFetch"
  /\ gateTrace' = Append(gateTrace, "remote")
  /\ UNCHANGED <<env, req, fetchPc, response, storeOps, resumed, abortState,
                 remote, apiResult, storeOutcome, uploads, uploadsBefore>>

\* what the verification service can answer: a transport error, or a status
\* with a body that is JSON or is not
Unparseable == [unparseable |-> TRUE]
RemoteBodies == {Unparseable, JsonNull, [message |-> "OK"],
                 [error |-> [message |-> "order declined"]]}
RemoteOutcomes ==
  {[kind |-> "throw"]}
  \cup [kind : {"response"}, status : RemoteStatuses, body : RemoteBodies]

\* the result without the test of the status
conveyorResult_anyStatus(o) ==
  IF o.kind = "throw"
  THEN [error |-> [message |-> "fetch failed"], status |-> 500]
  ELSE IF o.body = Unparseable
  THEN [error |-> [message |-> "SyntaxError"], status |-> o.status]
  ELSE [data |-> o.body, status |-> o.status]

\* the result with the body under both names on a status other than 200
conveyorResult_both(o) ==
  IF o.kind = "throw"
  THEN [error |-> [message |-> "fetch failed"], status |-> 500]
  ELSE IF o.body = Unparseable
  THEN [error |-> [message |-> "SyntaxError"], status |-> o.status]
  ELSE IF o.status # 200
  THEN [error |-> o.body, data |-> o.body, status |-> o.status]
  ELSE [data |-> o.body, status |-> o.status]

\* the value executeConveyorVerificationRequest returns for an outcome
conveyorResult(o) ==
  IF o.kind = "throw"
  THEN [error |-> [message |-> "fetch failed"], status |-> 500]
  ELSE IF o.body = Unparseable
  THEN [error |-> [message |-> "SyntaxError"], status |-> o.status]
  ELSE IF o.status # 200
  THEN [error |-> o.body, status |-> o.status]
  ELSE [data |-> o.body, status |-> o.status]

isApiError(res) == "error" \in DOMAIN res /\ res.error # Undefined

\* a failed call is made again
verifyRequestResponded_retry(res) ==
  IF isApiError(res) THEN "awaitSign" ELSE "Allow"

\* verifyRequest from the result of the remote call to its return
verifyRequestResponded(res) == IF isApiError(res) THEN "Deny" ELSE "Allow"

\* the outbound request settles and verifyRequest returns
executeConveyorVerificationRequest_fetch ==
  /\ gatePc = "awaitFetch"
  /\ \E o \in RemoteOutcomes :
       /\ remote' = o
       /\ apiResult' = conveyorResult(o)
  /\ gatePc' = verifyRequestResponded(apiResult')
  /\ UNCHANGED <<env, req, fetchPc, response, storeOps, resumed, abortState,
                 outbound, remoteCalls, gateTrace, storeOutcome, uploads,
                 uploadsBefore>>

\* the request is over: the worker is ready for the next one, and what the
\* request left unsettled is dropped with it
finish ==
  /\ fetchPc = "done"
  /\ req' = NoRequest
  /\ fetchPc' = "idle"
  /\ response' = NoResponse
  /\ storeOps' = <<>>
  /\ resumed' = FALSE
  /\ abortState' = "none"
  /\ gatePc' = "idle"
  /\ outbound' = NoHeaders
  /\ remote' = NoOutcome
  /\ apiResult' = Undefined
  /\ remoteCalls' = 0
  /\ gateTrace' = <<>>
  /\ storeOutcome' = "none"
  /\ uploadsBefore' = uploads
  /\ UNCHANGED <<env, uploads>>

\* ------------------------------------------------------------- behaviour
Next ==
  \/ \E r \in Requests : fetch(r)
  \/ fetch_json
  \/ fetch_store
  \/ abort_settle
  \/ verifyRequest_verify
  \/ executeConveyorVerificationRequest_sign
  \/ executeConveyorVerificationRequest_fetch
  \/ finish

Spec == Init /\ [][Next]_vars

\* the same worker in front of a bucket whose uploads are followed from
\* creation to completion or abort; the requests are those of the multipart
\* routes with their parameters, with and without the authorized token
AuthorizedHeaders ==
  [cookie |-> <<Cookie("session",
      [key |-> "priv-1",
       payload |-> [aud |-> "aud-A", realm |-> "realm-A", sub |-> "subject-A",
                    may_act |-> [client_id |-> "client-A"],
                    addl |-> [orderId |-> "order-1", orderStatus |-> "accepted"]]])>>]

StoreRequests ==
  {Request("POST", [action |-> "mpu-create"], "missing", h) :
     h \in {NoHeaders, AuthorizedHeaders}}
  \cup {Request("PUT", [action |-> "mpu-uploadpart", uploadId |-> u, partNumber |-> p],
                 "malformed", h) :
          u \in UploadIds, p \in PartNumberStrings, h \in {NoHeaders, AuthorizedHeaders}}
  \cup {Request("POST", [action |-> "mpu-complete", uploadId |-> u], b, h) :
          u \in UploadIds, b \in BodyKinds, h \in {NoHeaders, AuthorizedHeaders}}
  \cup {Request("DELETE", [action |-> "mpu-abort", uploadId |-> u], "missing", h) :
          u \in UploadIds, h \in {NoHeaders, AuthorizedHeaders}}

InitStore ==
  /\ env \in Envs
  /\ req = NoRequest
  /\ fetchPc = "idle"
  /\ response = NoResponse
  /\ storeOps = <<>>
  /\ resumed = FALSE
  /\ abortState = "none"
  /\ gatePc = "idle"
  /\ outbound = NoHeaders
  /\ remote = NoOutcome
  /\ apiResult = Undefined
  /\ remoteCalls = 0
  /\ gateTrace = <<>>
  /\ storeOutcome = "none"
  /\ uploads = NoUploads
  /\ uploadsBefore = NoUploads

NextStore ==
  \/ \E r \in StoreRequests : fetch(r)
  \/ fetch_json
  \/ fetch_store
  \/ abort_settle
  \/ verifyRequest_verify
  \/ executeConveyorVerificationRequest_sign
  \/ executeConveyorVerificationRequest_fetch
  \/ finish

SpecStore == InitStore /\ [][NextStore]_vars

TypeOK ==
  /\ env \in Envs
  /\ fetchPc \in {"idle", "awaitJson", "awaitStore", "done"}
  /\ gatePc \in {"idle", "awaitVerify", "awaitSign", "awaitFetch", "Allow", "Deny"}
  /\ abortState \in {"none", "pending", "fulfilled", "rejected"}
  /\ remoteCalls \in 0..1
  /\ Len(storeOps) <= 1
  /\ storeOutcome \in {"none", "ok", "null", "reject"}
  /\ uploads \in [UploadIds -> UploadStates \cup {"untracked"}]
  /\ Len(gateTrace) <= 4

\* ------------------------------------------------------------- properties
\* the request has no cookie header, or one without the configured name
LacksCookie(r) ==
  \/ "cookie" \notin DOMAIN r.headers
  \/ \A i \in DOMAIN r.headers["cookie"] :
       r.headers["cookie"][i].name # env.COOKIE_NAME

\* the token is signed with the key pair of the configured verification key
ValidlySigned(t) ==
  "key" \in DOMAIN t /\ PublicOf(t.key) = env.CLOUDFLARE_WORKER_PUBLIC_KEY

\* the token is signed, with another key pair
ForeignSigned(t) ==
  "key" \in DOMAIN t /\ PublicOf(t.key) # env.CLOUDFLARE_WORKER_PUBLIC_KEY

\* the four identity claims are those of the AuthorizedIdentity
IdentityMatches(p) ==
  /\ p.sub = env.AUTHORIZED_SUBJECT
  /\ p.realm = env.AUTHORIZED_REALM
  /\ p.aud = env.aUTHORIZED_AUDIENCE
  /\ p.may_act.client_id = env.AUTHORIZED_CLIENT_ID

\* the outbound verification request ended in anything but a 200 with a
\* body that parses
RemoteFailed ==
  \/ remote.kind = "throw"
  \/ remote.kind = "response" /\ (remote.status # 200 \/ remote.body = Unparseable)

IsRoute(method, action) ==
  /\ fetchPc # "idle"
  /\ req.method = method
  /\ HasParam(req.query, "action")
  /\ req.query.action = action

Started(op) == \E i \in DOMAIN storeOps : storeOps[i].op = op

\* C1: every bucket operation of a request is started after the gate has
\* reached its terminal state for the request, and only if that state is Allow.
C1_StoreOnlyAfterAllow ==
  \A i \in DOMAIN storeOps : storeOps[i].gate = "Allow"

\* C2: a request that the gate denies is answered 401 "Unauthorized",
\* whatever its method, action and parameters.
C2_DenyAnswered401 ==
  (fetchPc = "done" /\ gatePc = "Deny") =>
    response = Response(401, Text("Unauthorized"), NoHeaders)

\* C3: for a request without the credential cookie (no cookie header, or a
\* header without the configured name) verifyRequest returns Deny and no
\* outbound verification request is made.
C3_NoCookieDeniedWithoutCall ==
  (fetchPc # "idle" /\ LacksCookie(req)) =>
    /\ gatePc = "Deny"
    /\ remoteCalls = 0
    /\ outbound = NoHeaders

C3_Witness ==
  /\ fetchPc = "done"
  /\ "cookie" \in DOMAIN req.headers
  /\ req.headers["cookie"] # <<>>
  /\ LacksCookie(req)
  /\ gatePc = "Deny"

\* C4: a validly signed token with any of sub, realm, aud, may_act.client_id
\* different from the AuthorizedIdentity never gets past the claim check
\* (verifyRequest returns Deny and calls nothing); Allow needs all four to match.
C4_MismatchedClaimDenied ==
  (fetchPc # "idle" /\ ValidlySigned(jwtOf(req))) =>
    /\ ~IdentityMatches(jwtOf(req).payload) =>
         gatePc \in {"awaitVerify", "Deny"} /\ remoteCalls = 0
    /\ gatePc = "Allow" => IdentityMatches(jwtOf(req).payload)

C4_Witness ==
  /\ gatePc = "Deny"
  /\ ValidlySigned(jwtOf(req))
  /\ jwtOf(req).payload.aud # env.aUTHORIZED_AUDIENCE
  /\ jwtOf(req).payload.sub = env.AUTHORIZED_SUBJECT
  /\ jwtOf(req).payload.realm = env.AUTHORIZED_REALM
  /\ jwtOf(req).payload.may_act.client_id = env.AUTHORIZED_CLIENT_ID

\* C5: when the remote verification call ends in a status other than 200, a
\* transport error or a body that does not parse, verifyRequest returns Deny;
\* it returns Allow only after a 200 whose body parsed.
C5_RemoteFailureDenied ==
  /\ RemoteFailed => gatePc = "Deny"
  /\ gatePc = "Allow" =>
       remote.kind = "response" /\ remote.status = 200 /\ remote.body # Unparseable

C5_Witness ==
  /\ gatePc = "Deny"
  /\ remoteCalls = 1
  /\ remote.kind = "response"
  /\ remote.status = 403
  /\ remote.body # Unparseable

\* C6: a token signed with a key other than the configured verification key
\* is denied without any outbound verification request, whatever its payload,
\* also when its four identity claims are those of the AuthorizedIdentity.
C6_ForeignKeyRejected ==
  (fetchPc # "idle" /\ ForeignSigned(jwtOf(req))) =>
    /\ gatePc \in {"awaitVerify", "Deny"}
    /\ remoteCalls = 0
    /\ outbound = NoHeaders

C6_Witness ==
  /\ gatePc = "Deny"
  /\ ForeignSigned(jwtOf(req))
  /\ IdentityMatches(jwtOf(req).payload)
  /\ fetchPc = "done"

\* C7: an mpu-abort request with an uploadId is answered 400 with the store's
\* message whenever the abort fails in the store, and 204 only when the abort
\* succeeded.
C7_AbortFailureAnswered400 ==
  (IsRoute("DELETE", "mpu-abort") /\ Started("abort")) =>
    /\ abortState = "rejected" => response = Response(400, StoreMessage, NoHeaders)
    /\ (response.kind = "response" /\ response.status = 204) =>
         abortState # "rejected"

\* C8: an mpu-complete request with an uploadId and a missing or empty body
\* is answered 400, and complete is not called on the store.
C8_MissingBodyAnswered400 ==
  (/\ fetchPc = "done"
   /\ IsRoute("POST", "mpu-complete")
   /\ HasParam(req.query, "uploadId")
   /\ req.body \in {"missing", "empty"}) =>
    /\ response.kind = "response"
    /\ response.status = 400
    /\ ~Started("complete")

\* C9: an mpu-uploadpart request whose partNumber is not an integer is
\* answered 400 and uploadPart is not called on the store; with an integer
\* partNumber, an uploadId and a body the response carries that part number.
C9_PartNumberChecked ==
  (IsRoute("PUT", "mpu-uploadpart") /\ HasParam(req.query, "partNumber")) =>
    /\ ~IsIntegerString(req.query.partNumber) =>
         /\ ~Started("uploadPart")
         /\ fetchPc = "done" => (response.kind = "response" /\ response.status = 400)
    /\ (/\ IsIntegerString(req.query.partNumber)
        /\ fetchPc = "done"
        /\ response.kind = "response"
        /\ response.status = 200) =>
         response.body.json.partNumber = Decimal(req.query.partNumber)

\* C10: every request ends in an HTTP response: nothing is thrown past the
\* fetch handler, whichever collaborator fails, and no operation is started
\* twice.
C10_AlwaysAResponse ==
  /\ fetchPc = "done" => response.kind = "response"
  /\ \A i, j \in DOMAIN storeOps : storeOps[i].op = storeOps[j].op => i = j
  /\ remoteCalls <= 1

SupportedMethods == {"PUT", "POST", "GET", "DELETE"}

\* the actions the switch of a method has a case for
Recognized(method) ==
  IF method = "POST" THEN {"mpu-create", "mpu-complete"}
  ELSE IF method = "PUT" THEN {"mpu-uploadpart"}
  ELSE IF method = "GET" THEN {"get"}
  ELSE IF method = "DELETE" THEN {"mpu-abort", "delete"}
  ELSE {}

AllowHeader == [Allow |-> "PUT, POST, GET, DELETE"]

\* C11 (as claimed): a request with a method other than PUT, POST, GET,
\* DELETE is answered 405 with Allow: PUT, POST, GET, DELETE, whatever its
\* query string, also without an action parameter.
C11_UnsupportedMethod405 ==
  (fetchPc # "idle" /\ req.method \notin SupportedMethods) =>
    /\ fetchPc = "done"
    /\ response.kind = "response"
    /\ response.status = 405
    /\ response.headers = AllowHeader

\* C11 (amended): a request with a method other than PUT, POST, GET, DELETE
\* and an action parameter, whatever its value, is answered 405 with
\* Allow: PUT, POST, GET, DELETE; without an action parameter it is answered
\* 400 "Missing action type".
C11_UnsupportedMethodWithAction ==
  (fetchPc # "idle" /\ req.method \notin SupportedMethods) =>
    /\ fetchPc = "done"
    /\ storeOps = <<>>
    /\ HasParam(req.query, "action") =>
         /\ response.kind = "response"
         /\ response.status = 405
         /\ response.headers = AllowHeader
    /\ ~HasParam(req.query, "action") =>
         response = Response(400, Text("Missing action type"), NoHeaders)

C11_Witness ==
  /\ fetchPc = "done"
  /\ req.method = "PATCH"
  /\ HasParam(req.query, "action")
  /\ response.kind = "response"
  /\ response.status = 405

\* C12: a request makes at most one outbound verification call and starts at
\* most one bucket operation, on every path.
C12_AtMostOneCallAndOneOp ==
  /\ remoteCalls \in {0, 1}
  /\ Len(storeOps) \in {0, 1}

C12_Witness ==
  /\ fetchPc = "done"
  /\ remoteCalls = 1
  /\ remote # NoOutcome
  /\ Len(storeOps) = 1

\* C13: the token that signJwt produces for the outbound call is never
\* accepted by the signature verification of verifyRequest, the two keys
\* being of separate pairs.
C13_OutboundNeverVerifies ==
  outbound # NoHeaders =>
    Falsy(verify(outbound["cookie"][1].value, env.CLOUDFLARE_WORKER_PUBLIC_KEY))

\* C14: under GET, POST, PUT and DELETE a request whose action is none of the
\* method's own is answered 400 with a body naming that action and the
\* method, and starts no bucket operation.
C14_UnknownAction400 ==
  (/\ fetchPc # "idle"
   /\ req.method \in SupportedMethods
   /\ HasParam(req.query, "action")
   /\ req.query.action \notin Recognized(req.method)) =>
    /\ fetchPc = "done"
    /\ response.kind = "response"
    /\ response.status = 400
    /\ "action" \in DOMAIN response.body
    /\ response.body.text = "Unknown action"
    /\ response.body.action = req.query.action
    /\ response.body.method = req.method
    /\ storeOps = <<>>
    /\ ~resumed

C14_Witness ==
  /\ fetchPc = "done"
  /\ req.method = "GET"
  /\ HasParam(req.query, "action")
  /\ req.query.action = "frobnicate"
  /\ response.kind = "response"
  /\ response.status = 400

\* C16: an mpu-uploadpart request without partNumber or without uploadId is
\* answered 400, and neither resumeMultipartUpload nor uploadPart is called.
C16_MissingParameter400 ==
  (/\ IsRoute("PUT", "mpu-uploadpart")
   /\ (~HasParam(req.query, "partNumber") \/ ~HasParam(req.query, "uploadId"))) =>
    /\ fetchPc = "done"
    /\ response.kind = "response"
    /\ response.status = 400
    /\ ~resumed
    /\ storeOps = <<>>

C16_Witness ==
  /\ IsRoute("PUT", "mpu-uploadpart")
  /\ HasParam(req.query, "partNumber")
  /\ ~HasParam(req.query, "uploadId")
  /\ req.body # "missing"
  /\ fetchPc = "done"
  /\ response.status = 400

\* C18: what executeConveyorVerificationRequest returns has exactly one of
\* data and error: data after a 200 whose body parsed, error after any other
\* status, an unparseable body or a thrown error; and isApiError holds of it
\* exactly when error is there.
C18_ExactlyOneOfDataAndError ==
  apiResult # Undefined =>
    /\ ("data" \in DOMAIN apiResult) # ("error" \in DOMAIN apiResult)
    /\ "status" \in DOMAIN apiResult
    /\ isApiError(apiResult) <=> ("error" \in DOMAIN apiResult)
    /\ ("data" \in DOMAIN apiResult) <=> ~RemoteFailed

C18_Witness ==
  /\ apiResult # Undefined
  /\ remote.kind = "response"
  /\ remote.status = 500
  /\ remote.body # Unparseable
  /\ "error" \in DOMAIN apiResult

\* C19: the token sent to the verification service carries the addl of the
\* verified inbound token unchanged, under the identity claims of the
\* worker's own configuration.
C19_OutboundCarriesAddl ==
  outbound # NoHeaders =>
    LET out == outbound["cookie"][1].value.payload
        inb == jwtOf(req).payload
    IN /\ out.addl = inb.addl
       /\ out.aud = env.CLOUDFLARE_WORKER_AUD
       /\ out.realm = env.CLOUDFLARE_WORKER_REALM
       /\ out.sub = env.CLOUDFLARE_WORKER_SUB
       /\ out.may_act.client_id = env.CLOUDFLARE_WORKER_CLIENT_ID
       /\ env.CLOUDFLARE_WORKER_AUD # env.aUTHORIZED_AUDIENCE => out.aud # inb.aud
       /\ env.CLOUDFLARE_WORKER_REALM # env.AUTHORIZED_REALM => out.realm # inb.realm
       /\ env.CLOUDFLARE_WORKER_SUB # env.AUTHORIZED_SUBJECT => out.sub # inb.sub
       /\ env.CLOUDFLARE_WORKER_CLIENT_ID # env.AUTHORIZED_CLIENT_ID =>
            out.may_act.client_id # inb.may_act.client_id

C19_Witness ==
  /\ outbound # NoHeaders
  /\ jwtOf(req).payload.addl.orderId = "order-2"
  /\ outbound["cookie"][1].value.payload.addl.orderId = "order-2"

\* C15: once an upload is completed or aborted in the bucket, a later
\* mpu-uploadpart, mpu-complete or mpu-abort request that reaches the bucket
\* for it leaves its state as it was and is answered 400 with the store's
\* message.
C15_TerminalIsFinal ==
  (/\ fetchPc = "done"
   /\ HasParam(req.query, "uploadId")
   /\ storeOps # <<>>
   /\ storeOps[1].op \in {"uploadPart", "complete", "abort"}
   /\ uploadsBefore[Target] \in Terminal
   /\ abortState # "pending") =>
    /\ uploads[Target] = uploadsBefore[Target]
    /\ response = Response(400, StoreMessage, NoHeaders)

\* C17: when the bucket rejects the uploadPart or the complete of a request,
\* the request is answered 400 with the store's message as its body, and
\* with nothing of a success (no part, no etag).
C17_StoreRejectionAnswered400 ==
  (/\ fetchPc = "done"
   /\ storeOutcome = "reject"
   /\ (Started("uploadPart") \/ Started("complete"))) =>
    /\ response.kind = "response"
    /\ response.status = 400
    /\ response.body = Text("store error message")
    /\ response.headers = NoHeaders

C17_Witness ==
  /\ fetchPc = "done"
  /\ storeOutcome = "reject"
  /\ Started("complete")
  /\ response.kind = "response"
  /\ response.status = 400

GateOrder == <<"extract", "verify", "match", "remote">>

\* C20: verifyRequest takes its steps in the order extract, verify, match,
\* remote, and the outbound call is made only after the signature was found
\* good and the four claims were found to match: a token that fails either
\* causes no outbound call.
C20_RemoteCallLast ==
  /\ \E n \in 0..Len(GateOrder) : gateTrace = SubSeq(GateOrder, 1, n)
  /\ (remoteCalls > 0 \/ outbound # NoHeaders) =>
       /\ gateTrace = GateOrder
       /\ ValidlySigned(jwtOf(req))
       /\ IdentityMatches(jwtOf(req).payload)
  /\ (gatePc = "Deny" /\ Len(gateTrace) < Len(GateOrder)) =>
       remoteCalls = 0 /\ remote = NoOutcome

C20_Witness ==
  /\ gateTrace = <<"extract", "verify", "match">>
  /\ gatePc = "Deny"
  /\ remoteCalls = 0
  /\ fetchPc = "done"
====
